---- MODULE Spec2Model ----
(***************************************************************************)
(* Model of the pipelined houses downloader (src/unnamed/part_000):        *)
(* main, pipeHouses (the producer goroutine), requestWithRetry and the     *)
(* downloadHouseImages workers, communicating over one unbuffered channel  *)
(* and one sync.WaitGroup.                                                 *)
(***************************************************************************)
EXTENDS Integers, Sequences, FiniteSets, TLC

\* ---------------------------------------------------------------- bounds
\* number of pages the producer iterates (the literal 10 of `i <= 10`)
NumPages == 2
\* number of houses in the collection the API serves, page by page
MaxHouses == 3

\* number of workers main starts (maxGoroutines is 20 in the source)
maxGoroutines == 2

\* number of Write calls io.Copy needs for one asset
AssetBlocks == 2

\* ------------------------------------------------------ program constants
maxTries == 20

Workers == 1..maxGoroutines
Pages == 1..NumPages

\* strings are sequences of one-character strings
Digit == <<"0", "1", "2", "3", "4", "5", "6", "7", "8", "9">>

\* fmt's %d of a non-negative int
RECURSIVE Itoa(_)
Itoa(n) == IF n < 10 THEN <<Digit[n + 1]>> ELSE Itoa(n \div 10) \o <<Digit[(n % 10) + 1]>>

\* mutant: only the last character is looked at, once
TrimRight_Once(str, c) ==
  IF Len(str) > 0 /\ str[Len(str)] = c THEN SubSeq(str, 1, Len(str) - 1) ELSE str

\* strings.TrimRight(str, c) for a cutset of the one character c
RECURSIVE TrimRight(_, _)
TrimRight(str, c) ==
  IF Len(str) > 0 /\ str[Len(str)] = c
    THEN TrimRight(SubSeq(str, 1, Len(str) - 1), c)
    ELSE str

\* filepath.Ext(path): the suffix that starts at the last dot of the last
\* element of path, the dot included; empty when that element has no dot
RECURSIVE ExtFrom(_, _)
ExtFrom(path, i) ==
  IF i < 1 \/ path[i] = "/" THEN <<>>
  ELSE IF path[i] = "." THEN SubSeq(path, i, Len(path))
  ELSE ExtFrom(path, i - 1)

Ext(path) == ExtFrom(path, Len(path))

\* the address and the photo URL the API gives its k-th record
AddressOf(k) == IF k % 2 = 1 THEN <<"a">> ELSE <<"a", ".", ".">>
PhotoURLOf(k) == <<"h", ".", "x", "/">> \o Itoa(k) \o <<".", "j">>

\* type house (Homeowner and Price are decoded and never read); the API
\* gives the k-th record of its collection the id k
house(k) == [ID |-> k, Address |-> AddressOf(k), PhotoURL |-> PhotoURLOf(k)]

\* the collection of an API that keeps ids unique
ValidCollection == [k \in 1..MaxHouses |-> house(k)]

\* the ids of an API that may give the id 1 to later records as well
RepeatedIDs == {ids \in [1..MaxHouses -> 1..MaxHouses] : \A k \in 1..MaxHouses : ids[k] \in {1, k}}

\* the collections of such an API
AnyCollections ==
  {[k \in 1..MaxHouses |-> [house(k) EXCEPT !.ID = ids[k]]] : ids \in RepeatedIDs}

\* lines 97-102: fmt.Sprintf("id-%d-%s.%s", ID, TrimRight(Address, "."), Ext(PhotoURL))
fileName(h) ==
  <<"i", "d", "-">> \o Itoa(h.ID) \o <<"-">> \o TrimRight(h.Address, ".")
    \o <<".">> \o Ext(h.PhotoURL)

\* the body of the response to a GET of the photo URL, as the blocks that
\* io.Copy moves with one Write each
asset(url) == [b \in 1..AssetBlocks |-> <<url, b>>]

\* what a write leaves where nothing was written
Hole == <<"hole">>

\* mutant: the block is appended to the file, whatever the handle's offset
Written_Appended(content, off, block) == Append(content, block)

\* (*os.File).Write of one block at the handle's offset `off` (in blocks):
\* the block replaces what is there, a gap before it reads as a hole
Written(content, off, block) ==
  [i \in 1..(IF Len(content) > off + 1 THEN Len(content) ELSE off + 1) |->
     IF i = off + 1 THEN block
     ELSE IF i <= Len(content) THEN content[i]
     ELSE Hole]

None == [none |-> TRUE]

VARIABLES
  pstate,      \* the process: "running", "fatal" (log.Fatalf), "exited" (main returned)
  fatalCause,  \* which log.Fatalf ended the process
  mainpc,      \* main: "start", "spawn", "wait", "done"
  spawned,     \* main's loop variable i of the spawn loop
  wg,          \* counter of the sync.WaitGroup
  out,         \* the value of the sender parked on the unbuffered channel, or None
  closed,      \* close(out) has been executed
  ppc,         \* producer goroutine: "idle","request","returned","emit","blocked","close","finished"
  page,        \* producer's loop variable i
  tries,       \* requestWithRetry: tries
  resp,        \* requestWithRetry: status of resp ("nil", "200", "500")
  err,         \* requestWithRetry: err ("nil" or "transport")
  pageHouses,  \* houses.Houses decoded from the current page
  hidx,        \* position of the range loop over houses.Houses
  wpc,         \* worker: "unstarted","recv","get","create","copy","returned","done"
  wrec,        \* the record a worker is processing: [pos, house], or None
  served,      \* history: the houses arrays of the page bodies decoded so far, in order
  sent,        \* history: sequence of records the producer put on the channel
  received,    \* history: positions in `sent` of the values workers received, in order
  finished,    \* history: positions in `sent` of the records whose processing ended
  ngets,       \* history: GETs the server saw in the current requestWithRetry call
  nNon200,     \* history: non-200 responses the server gave in the current call
  api,         \* environment: the collection of houses the API serves
  files,       \* the working directory: file name -> content, a sequence of blocks
  handles,     \* per worker: response bodies and files opened and not yet closed
  woff,        \* per worker: offset, in blocks, of the file handle it writes through
  bodies,      \* page response bodies the producer opened and has not closed
  assetGets,   \* history: per position in `sent`, the GETs issued for its photo URL
  succeeded,   \* history: positions in `sent` of the records downloaded without error
  allHouses,   \* main.go: allHouses, the records of the pages fetched so far
  gidx,        \* main.go: position of the range loop over allHouses
  gpc,         \* main.go: per house, its goroutine: "unstarted","get","create","copy","ended"
  goff         \* main.go: per house, offset, in blocks, of its goroutine's file handle

vars == <<pstate, fatalCause, mainpc, spawned, wg, out, closed, ppc, page, tries,
          resp, err, pageHouses, hidx, wpc, wrec, served, sent, received,
          finished, ngets, nNon200, api, files, handles, woff, bodies,
          assetGets, succeeded, allHouses, gidx, gpc, goff>>

ioVars == <<files, handles, woff, assetGets, succeeded>>

\* the variables of the non-pipelined program of main.go
goVars == <<allHouses, gidx, gpc, goff>>

\* type houses: the Houses slice decoded from a page body when `before`
\* records were served on earlier pages: the next records of the
\* collection, any number of them from none to all that are left
houses(before) ==
  {[k \in 1..n |-> api[before + k]] : n \in 0..(MaxHouses - before)}

mainVars == <<mainpc, spawned>>
prodVars == <<ppc, page, tries, resp, err, pageHouses, hidx>>
retryHist == <<ngets, nNon200>>
workHist == <<received, finished>>

\* the state when main starts, for any collection the API may hold
InitWith(collection) ==
  /\ api = collection
  /\ files = <<>>
  /\ handles = [w \in Workers |-> 0]
  /\ woff = [w \in Workers |-> 0]
  /\ bodies = 0
  /\ assetGets = [i \in 1..MaxHouses |-> 0]
  /\ succeeded = {}
  /\ allHouses = <<>>
  /\ gidx = 1
  /\ gpc = [g \in 1..MaxHouses |-> "unstarted"]
  /\ goff = [g \in 1..MaxHouses |-> 0]
  /\ pstate = "running"
  /\ fatalCause = "none"
  /\ mainpc = "start"
  /\ spawned = 0
  /\ wg = 0
  /\ out = None
  /\ closed = FALSE
  /\ ppc = "idle"
  /\ page = 1
  /\ tries = 0
  /\ resp = "nil"
  /\ err = "nil"
  /\ pageHouses = <<>>
  /\ hidx = 1
  /\ wpc = [w \in Workers |-> "unstarted"]
  /\ wrec = [w \in Workers |-> None]
  /\ served = <<>>
  /\ sent = <<>>
  /\ received = <<>>
  /\ finished = {}
  /\ ngets = 0
  /\ nNon200 = 0

\* the API keeps ids unique
Init == InitWith(ValidCollection)

\* ------------------------------------------------------------------ main

\* log.Fatalf: os.Exit(1), every goroutine stops where it is
Fatalf(cause) ==
  /\ pstate' = "fatal"
  /\ fatalCause' = cause

\* main, lines 43-47: build the client, call pipeHouses, which makes the
\* channel and starts the producer goroutine at its first page
MainPipeHouses ==
  /\ pstate = "running"
  /\ mainpc = "start"
  /\ mainpc' = "spawn"
  /\ ppc' = "request"
  /\ page' = 1
  /\ tries' = 0
  /\ ngets' = 0
  /\ nNon200' = 0
  /\ UNCHANGED <<pstate, fatalCause, spawned, wg, out, closed, resp, err,
                 pageHouses, hidx, wpc, wrec, served, sent, workHist>>
  /\ UNCHANGED <<api, ioVars, bodies>>
  /\ UNCHANGED goVars

\* main, lines 52-55: wg.Add(1); go downloadHouseImages(housesPipeline)
MainSpawn ==
  /\ pstate = "running"
  /\ mainpc = "spawn"
  /\ IF spawned < maxGoroutines
       THEN /\ wg' = wg + 1
            /\ wpc' = [wpc EXCEPT ![spawned + 1] = "recv"]
            /\ spawned' = spawned + 1
            /\ UNCHANGED mainpc
       ELSE /\ mainpc' = "wait"
            /\ UNCHANGED <<wg, wpc, spawned>>
  /\ UNCHANGED <<pstate, fatalCause, out, closed, prodVars, wrec, served, sent,
                 workHist, retryHist>>
  /\ UNCHANGED <<api, ioVars, bodies>>
  /\ UNCHANGED goVars

\* mutant: the wait returns while one worker is still counted
WaitReturns_OneLeft == wg <= 1

\* wg.Wait() returns when the counter is zero
WaitReturns == wg = 0

\* main, lines 56-58: wg.Wait(), then main returns and the process exits 0
MainWait ==
  /\ pstate = "running"
  /\ mainpc = "wait"
  /\ WaitReturns
  /\ mainpc' = "done"
  /\ pstate' = "exited"
  /\ UNCHANGED <<fatalCause, spawned, wg, out, closed, prodVars, wpc, wrec,
                 served, sent, workHist, retryHist>>
  /\ UNCHANGED <<api, ioVars, bodies>>
  /\ UNCHANGED goVars

\* ------------------------------------------------------ requestWithRetry

\* mutant: the budget check is off by one and gives up one try early
RetryExhausted_Early == tries >= maxTries - 1

\* mutant: the budget check uses > and allows one try too many
RetryExhausted_Late == tries > maxTries

\* lines 141-143: tries >= maxTries is checked before every GET
RetryExhausted == tries >= maxTries

\* lines 139-143: the budget is spent, log.Fatalf ends the process
RetryFatal ==
  /\ pstate = "running"
  /\ ppc = "request"
  /\ RetryExhausted
  /\ Fatalf("retries")
  /\ UNCHANGED <<mainVars, wg, out, closed, prodVars, wpc, wrec, served, sent,
                 workHist, retryHist>>
  /\ UNCHANGED <<api, ioVars, bodies>>
  /\ UNCHANGED goVars

\* mutant: a transport error is counted as a failed try and retried
OnTransportError_Retried ==
  /\ resp' = "nil"
  /\ err' = "transport"
  /\ tries' = tries + 1
  /\ UNCHANGED <<ppc, nNon200>>
  /\ UNCHANGED bodies

\* lines 145-147: client.Get failed, leave the loop with resp = nil and err set
OnTransportError ==
  /\ resp' = "nil"
  /\ err' = "transport"
  /\ ppc' = "returned"
  /\ UNCHANGED <<tries, nNon200>>
  /\ UNCHANGED bodies

\* lines 148-151: 200 OK, leave the loop with the response and a nil error
OnStatusOK ==
  /\ resp' = "200"
  /\ err' = "nil"
  /\ ppc' = "returned"
  /\ UNCHANGED <<tries, nNon200>>
  /\ bodies' = bodies + 1

\* line 152: any other status, count the try and go round again
OnStatusOther ==
  /\ resp' = "500"
  /\ err' = "nil"
  /\ tries' = tries + 1
  /\ nNon200' = nNon200 + 1
  /\ UNCHANGED ppc
  /\ UNCHANGED bodies

\* lines 139-153: one iteration of the loop that issues client.Get(url); the
\* server answers with a transport error, 200 OK or another status
RetryGet ==
  /\ pstate = "running"
  /\ ppc = "request"
  /\ ~RetryExhausted
  /\ ngets' = ngets + 1
  /\ \E answer \in {"transport", "200", "500"} :
       CASE answer = "transport" -> OnTransportError
         [] answer = "200" -> OnStatusOK
         [] answer = "500" -> OnStatusOther
  /\ UNCHANGED <<pstate, fatalCause, mainVars, wg, out, closed, page, pageHouses,
                 hidx, wpc, wrec, served, sent, workHist>>
  /\ UNCHANGED <<api, ioVars>>
  /\ UNCHANGED goVars

\* ------------------------------------------------------------ pipeHouses

\* lines 68-70: requestWithRetry returned an error, log.Fatalf
ProducerRequestError ==
  /\ pstate = "running"
  /\ ppc = "returned"
  /\ err # "nil"
  /\ Fatalf("transport")
  /\ UNCHANGED <<mainVars, wg, out, closed, prodVars, wpc, wrec, served, sent,
                 workHist, retryHist>>
  /\ UNCHANGED <<api, ioVars, bodies>>
  /\ UNCHANGED goVars

\* lines 73-76: the body is not the JSON of a houses value, log.Fatalf
ProducerDecodeError ==
  /\ pstate = "running"
  /\ ppc = "returned"
  /\ err = "nil"
  /\ Fatalf("decode")
  /\ UNCHANGED <<mainVars, wg, out, closed, prodVars, wpc, wrec, served, sent,
                 workHist, retryHist>>
  /\ UNCHANGED <<api, ioVars, bodies>>
  /\ UNCHANGED goVars

\* lines 133-138: the locals of a requestWithRetry call that has returned
\* and whose response has been consumed are gone
ForgetRequest ==
  /\ tries' = 0
  /\ resp' = "nil"
  /\ err' = "nil"
  /\ ngets' = 0
  /\ nNon200' = 0

\* lines 73-78: the body decodes to a houses value; the range loop starts at
\* its first element
ProducerDecode ==
  /\ pstate = "running"
  /\ ppc = "returned"
  /\ err = "nil"
  /\ \E body \in houses(Len(sent)) :
       /\ pageHouses' = body
       /\ served' = Append(served, body)
  /\ hidx' = 1
  /\ ppc' = "emit"
  /\ ForgetRequest
  /\ UNCHANGED <<pstate, fatalCause, mainVars, wg, out, closed, page, wpc, wrec,
                 sent, workHist>>
  /\ UNCHANGED <<api, ioVars, bodies>>
  /\ UNCHANGED goVars

\* mutant: the range loop walks the slice from its end
NextHouse_Reversed == pageHouses[Len(pageHouses) + 1 - hidx]

\* the element the range loop of line 78 hands to the send of line 79
NextHouse == pageHouses[hidx]

\* mutant: the channel has a buffer, the send returns without a receiver
ParkSender_Buffered ==
  /\ ppc' = "emit"
  /\ hidx' = hidx + 1

\* line 63: make(chan house) has no buffer, so the sender of line 79 stays
\* in its send statement until a receiver takes the value
ParkSender ==
  /\ ppc' = "blocked"
  /\ UNCHANGED hidx

\* line 79: out <- house; the channel is unbuffered, the producer parks with
\* its value until a worker receives it
ProducerSend ==
  /\ pstate = "running"
  /\ ppc = "emit"
  /\ hidx <= Len(pageHouses)
  /\ out' = [pos |-> Len(sent) + 1, house |-> NextHouse]
  /\ sent' = Append(sent, NextHouse)
  /\ ParkSender
  /\ UNCHANGED <<pstate, fatalCause, mainVars, wg, closed, page, tries, resp, err,
                 pageHouses, wpc, wrec, served, workHist, retryHist>>
  /\ UNCHANGED <<api, ioVars, bodies>>
  /\ UNCHANGED goVars

\* mutant: the page loop tests i < 10 and stops one page short
MorePages_Short == page + 1 < NumPages

\* line 65: i++ ; i <= 10
MorePages == page + 1 <= NumPages

\* lines 65, 78-81: the range loop is over; i++ and either the next page's
\* requestWithRetry call starts or the page loop ends
ProducerNextPage ==
  /\ pstate = "running"
  /\ ppc = "emit"
  /\ hidx > Len(pageHouses)
  /\ page' = page + 1
  /\ ppc' = IF MorePages THEN "request" ELSE "close"
  /\ pageHouses' = <<>>
  /\ hidx' = 1
  /\ UNCHANGED <<pstate, fatalCause, mainVars, wg, out, closed, tries, resp, err,
                 wpc, wrec, served, sent, workHist, retryHist>>
  /\ UNCHANGED <<api, ioVars, bodies>>
  /\ UNCHANGED goVars

\* line 82: close(out); the goroutine ends
ProducerClose ==
  /\ pstate = "running"
  /\ ppc = "close"
  /\ closed' = TRUE
  /\ ppc' = "finished"
  /\ UNCHANGED <<pstate, fatalCause, mainVars, wg, out, page, tries, resp, err,
                 pageHouses, hidx, wpc, wrec, served, sent, workHist, retryHist>>
  /\ bodies' = 0
  /\ UNCHANGED <<api, ioVars>>
  /\ UNCHANGED goVars

\* --------------------------------------------------- downloadHouseImages

\* mutant: the sender resumes but its value stays available to receivers
TakeFromChannel_Stays ==
  /\ out' = out
  /\ ppc' = "emit"
  /\ hidx' = hidx + 1

\* the parked sender's value leaves the channel and the sender resumes after
\* its send statement
TakeFromChannel ==
  /\ out' = None
  /\ ppc' = "emit"
  /\ hidx' = hidx + 1

\* line 96, ok = true: a worker receives the value of the parked sender
WorkerReceive(w) ==
  /\ pstate = "running"
  /\ wpc[w] = "recv"
  /\ out # None
  /\ wrec' = [wrec EXCEPT ![w] = out]
  /\ received' = Append(received, out.pos)
  /\ wpc' = [wpc EXCEPT ![w] = "get"]
  /\ TakeFromChannel
  /\ UNCHANGED <<pstate, fatalCause, mainVars, wg, closed, page, tries, resp, err,
                 pageHouses, served, sent, finished, retryHist>>
  /\ UNCHANGED <<api, ioVars, bodies>>
  /\ UNCHANGED goVars

\* line 96, ok = false, lines 125-129: the channel is closed and empty, the
\* loop is left and wg.Done() is called
WorkerChannelClosed(w) ==
  /\ pstate = "running"
  /\ wpc[w] = "recv"
  /\ out = None
  /\ closed
  /\ wpc' = [wpc EXCEPT ![w] = "done"]
  /\ wg' = wg - 1
  /\ UNCHANGED <<pstate, fatalCause, mainVars, out, closed, prodVars, wrec, served,
                 sent, workHist, retryHist>>
  /\ handles' = [handles EXCEPT ![w] = 0]
  /\ UNCHANGED <<api, bodies, files, woff, assetGets, succeeded>>
  /\ UNCHANGED goVars

\* mutant: a per-item error is reported with log.Fatalf
OnItemError_Fatal(w) ==
  /\ Fatalf("item")
  /\ UNCHANGED <<wpc, wrec, finished, wg>>
  /\ UNCHANGED <<handles, woff, succeeded>>

\* lines 106-109, 114-117, 121-124: a per-item error is logged and the
\* function returns; wg.Done() of line 129 is not reached
\* mutant: the failed step is tried again for the same record
OnItemError_Retried(w) ==
  /\ wpc' = [wpc EXCEPT ![w] = "get"]
  /\ UNCHANGED <<wrec, finished, wg, pstate, fatalCause, handles, woff, succeeded>>

\* the return runs the deferred Close calls of lines 110 and 118
OnItemError(w) ==
  /\ wpc' = [wpc EXCEPT ![w] = "returned"]
  /\ wrec' = [wrec EXCEPT ![w] = None]
  /\ finished' = finished \cup {wrec[w].pos}
  /\ UNCHANGED <<wg, pstate, fatalCause>>
  /\ handles' = [handles EXCEPT ![w] = 0]
  /\ woff' = [woff EXCEPT ![w] = 0]
  /\ UNCHANGED succeeded

\* the worker's step from one statement of the loop body to the next, with
\* the response body (line 105) or the file (line 113) it has just opened;
\* lines 110 and 118 defer the Close to the return of the function
WorkerAdvance(w, to) ==
  /\ wpc' = [wpc EXCEPT ![w] = to]
  /\ UNCHANGED <<wrec, finished, wg, pstate, fatalCause>>
  /\ handles' = [handles EXCEPT ![w] = handles[w] + 1]
  /\ UNCHANGED <<woff, succeeded>>

\* lines 97-109: the file name is derived and client.Get(house.PhotoURL)
\* runs, once
WorkerGet(w) ==
  /\ pstate = "running"
  /\ wpc[w] = "get"
  /\ assetGets' = [assetGets EXCEPT ![wrec[w].pos] = @ + 1]
  /\ \E ok \in BOOLEAN : IF ok THEN WorkerAdvance(w, "create") ELSE OnItemError(w)
  /\ UNCHANGED <<mainVars, out, closed, prodVars, served, sent, received,
                 retryHist, api, bodies, files>>
  /\ UNCHANGED goVars

\* os.Create(name): the file exists and is empty afterwards
Created(name) == (name :> <<>>) @@ files

\* lines 113-118: os.Create(fileName)
WorkerCreate(w) ==
  /\ pstate = "running"
  /\ wpc[w] = "create"
  /\ \E ok \in BOOLEAN :
       IF ok THEN /\ files' = Created(fileName(wrec[w].house))
                  /\ WorkerAdvance(w, "copy")
             ELSE /\ UNCHANGED files
                  /\ OnItemError(w)
  /\ UNCHANGED <<mainVars, out, closed, prodVars, served, sent, received,
                 retryHist, api, bodies, assetGets>>
  /\ UNCHANGED goVars

\* lines 121: io.Copy has written a block and has more to write
OnBlockWritten(w) ==
  /\ woff' = [woff EXCEPT ![w] = woff[w] + 1]
  /\ UNCHANGED <<wpc, wrec, finished, wg, pstate, fatalCause, handles, succeeded>>

\* lines 121-124, 95: the copy succeeded, the loop goes round to the receive
OnItemDone(w) ==
  /\ wpc' = [wpc EXCEPT ![w] = "recv"]
  /\ wrec' = [wrec EXCEPT ![w] = None]
  /\ finished' = finished \cup {wrec[w].pos}
  /\ UNCHANGED <<wg, pstate, fatalCause>>
  /\ succeeded' = succeeded \cup {wrec[w].pos}
  /\ woff' = [woff EXCEPT ![w] = 0]
  /\ UNCHANGED handles

\* the file `name` after the worker's handle has written its next block
AfterWrite(w, name) ==
  (name :> Written(files[name], woff[w], asset(wrec[w].house.PhotoURL)[woff[w] + 1]))
    @@ files

\* lines 121-124: io.Copy(file, resp.Body), one Write of it: the next block
\* of the body goes to the file at the handle's offset, or the copy fails
WorkerCopy(w) ==
  /\ pstate = "running"
  /\ wpc[w] = "copy"
  /\ \E ok \in BOOLEAN :
       IF ok THEN /\ files' = AfterWrite(w, fileName(wrec[w].house))
                  /\ IF woff[w] + 1 = AssetBlocks THEN OnItemDone(w)
                                                  ELSE OnBlockWritten(w)
             ELSE /\ UNCHANGED files
                  /\ OnItemError(w)
  /\ UNCHANGED <<mainVars, out, closed, prodVars, served, sent, received,
                 retryHist, api, bodies, assetGets>>
  /\ UNCHANGED goVars

\* ------------------------------------------------------------ the program

MainStep == MainPipeHouses \/ MainSpawn \/ MainWait

ProducerStep ==
  \/ RetryFatal
  \/ RetryGet
  \/ ProducerRequestError
  \/ ProducerDecodeError
  \/ ProducerDecode
  \/ ProducerSend
  \/ ProducerNextPage
  \/ ProducerClose

WorkerStep(w) ==
  \/ WorkerReceive(w)
  \/ WorkerChannelClosed(w)
  \/ WorkerGet(w)
  \/ WorkerCreate(w)
  \/ WorkerCopy(w)

Next == MainStep \/ ProducerStep \/ (\E w \in Workers : WorkerStep(w))

Spec == Init /\ [][Next]_vars

\* the API may repeat an id
InitCollide == \E collection \in AnyCollections : InitWith(collection)

\* the program against an API that may repeat an id
SpecCollide == InitCollide /\ [][Next]_vars

\* every goroutine that can run is eventually run by the Go scheduler
FairSpec ==
  /\ Spec
  /\ WF_vars(MainStep)
  /\ WF_vars(ProducerStep)
  /\ \A w \in Workers : WF_vars(WorkerStep(w))

\* ------------------------------------------- main.go, the earlier variant

\* what main.go has none of: the channel, the producer goroutine, the workers
pipelineVars ==
  <<spawned, out, closed, ppc, tries, resp, err, pageHouses, hidx, wpc, wrec,
    served, sent, received, finished, ngets, nNon200, handles, woff,
    assetGets, succeeded>>

\* main.go lines 40-45: the client and the empty allHouses
BeginFetch ==
  /\ pstate = "running"
  /\ mainpc = "start"
  /\ mainpc' = "fetch"
  /\ UNCHANGED <<pstate, fatalCause, wg, page, api, files, bodies, goVars,
                 pipelineVars>>

\* main.go lines 46-59: one iteration of the page loop; main is the only
\* goroutine yet, so the iteration is one step: requestWithRetry ends the
\* process or returns, an error or an undecodable body ends the process,
\* and the Houses of a decoded body are appended to allHouses
FetchPage ==
  /\ pstate = "running"
  /\ mainpc = "fetch"
  /\ page <= NumPages
  /\ \/ /\ \E cause \in {"retries", "transport", "decode"} : Fatalf(cause)
        /\ UNCHANGED <<page, allHouses, bodies>>
     \/ /\ \E body \in houses(Len(allHouses)) : allHouses' = allHouses \o body
        /\ page' = page + 1
        /\ bodies' = bodies + 1
        /\ UNCHANGED <<pstate, fatalCause>>
  /\ UNCHANGED <<mainpc, wg, api, files, gidx, gpc, goff, pipelineVars>>

\* main.go lines 46 and 61-63: the page loop ends, the downloads begin
BeginDownloads ==
  /\ pstate = "running"
  /\ mainpc = "fetch"
  /\ page > NumPages
  /\ mainpc' = "go"
  /\ UNCHANGED <<pstate, fatalCause, wg, page, api, files, bodies, goVars,
                 pipelineVars>>

\* main.go line 66: go downloadHouseImage(house); the goroutine can run
\* from here on, main has not called wg.Add yet
GoDownloadHouseImage ==
  /\ pstate = "running"
  /\ mainpc = "go"
  /\ gidx <= Len(allHouses)
  /\ gpc' = [gpc EXCEPT ![gidx] = "get"]
  /\ mainpc' = "add"
  /\ UNCHANGED <<pstate, fatalCause, wg, page, api, files, bodies, allHouses,
                 gidx, goff, pipelineVars>>

\* main.go line 67: wg.Add(1), then the next house
AddOne ==
  /\ pstate = "running"
  /\ mainpc = "add"
  /\ wg' = wg + 1
  /\ gidx' = gidx + 1
  /\ mainpc' = "go"
  /\ UNCHANGED <<pstate, fatalCause, page, api, files, bodies, allHouses, gpc,
                 goff, pipelineVars>>

\* main.go lines 65 and 70: the range loop ends, main calls wg.Wait()
RangeEnds ==
  /\ pstate = "running"
  /\ mainpc = "go"
  /\ gidx > Len(allHouses)
  /\ mainpc' = "wait"
  /\ UNCHANGED <<pstate, fatalCause, wg, page, api, files, bodies, goVars,
                 pipelineVars>>

\* main.go lines 70-73: wg.Wait() returns at counter zero, main returns
WaitForDownloads ==
  /\ pstate = "running"
  /\ mainpc = "wait"
  /\ WaitReturns
  /\ mainpc' = "done"
  /\ pstate' = "exited"
  /\ UNCHANGED <<fatalCause, wg, page, api, files, bodies, goVars, pipelineVars>>

\* main.go line 104: the deferred wg.Done() runs when downloadHouseImage
\* returns; sync.WaitGroup panics when the counter goes below zero
DeferredDone(g) ==
  /\ gpc' = [gpc EXCEPT ![g] = "ended"]
  /\ goff' = [goff EXCEPT ![g] = 0]
  /\ wg' = wg - 1
  /\ IF wg - 1 < 0
       THEN /\ pstate' = "panicked"
            /\ fatalCause' = "negative WaitGroup counter"
       ELSE UNCHANGED <<pstate, fatalCause>>

\* the goroutine goes on to its next statement
ImageAdvance(g, to) ==
  /\ gpc' = [gpc EXCEPT ![g] = to]
  /\ UNCHANGED <<goff, wg, pstate, fatalCause>>

\* main.go lines 105-118: the file name and client.Get(house.PhotoURL)
ImageGet(g) ==
  /\ pstate = "running"
  /\ gpc[g] = "get"
  /\ \E ok \in BOOLEAN : IF ok THEN ImageAdvance(g, "create") ELSE DeferredDone(g)
  /\ UNCHANGED <<mainpc, page, api, files, bodies, allHouses, gidx, pipelineVars>>

\* main.go lines 120-126: os.Create(fileName)
ImageCreate(g) ==
  /\ pstate = "running"
  /\ gpc[g] = "create"
  /\ \E ok \in BOOLEAN :
       IF ok THEN /\ files' = Created(fileName(allHouses[g]))
                  /\ ImageAdvance(g, "copy")
             ELSE /\ UNCHANGED files
                  /\ DeferredDone(g)
  /\ UNCHANGED <<mainpc, page, api, bodies, allHouses, gidx, pipelineVars>>

\* the file of house g after its goroutine has written its next block
AfterImageWrite(g, name) ==
  (name :> Written(files[name], goff[g], asset(allHouses[g].PhotoURL)[goff[g] + 1]))
    @@ files

\* main.go lines 128-134: io.Copy(file, resp.Body), one Write of it; after
\* the last one the function returns
ImageCopy(g) ==
  /\ pstate = "running"
  /\ gpc[g] = "copy"
  /\ \E ok \in BOOLEAN :
       IF ok THEN /\ files' = AfterImageWrite(g, fileName(allHouses[g]))
                  /\ IF goff[g] + 1 = AssetBlocks
                       THEN DeferredDone(g)
                       ELSE /\ goff' = [goff EXCEPT ![g] = goff[g] + 1]
                            /\ UNCHANGED <<gpc, wg, pstate, fatalCause>>
             ELSE /\ UNCHANGED files
                  /\ DeferredDone(g)
  /\ UNCHANGED <<mainpc, page, api, bodies, allHouses, gidx, pipelineVars>>

NextMain ==
  \/ BeginFetch
  \/ FetchPage
  \/ BeginDownloads
  \/ GoDownloadHouseImage
  \/ AddOne
  \/ RangeEnds
  \/ WaitForDownloads
  \/ \E g \in 1..MaxHouses : ImageGet(g) \/ ImageCreate(g) \/ ImageCopy(g)

\* the non-pipelined program of main.go
SpecMain == Init /\ [][NextMain]_vars

\* ------------------------------------------------------------ properties

Positions == 1..Len(sent)

Holding(w) == wrec[w] # None

\* the houses arrays of pages 1..n, one after the other
RECURSIVE ServedUpTo(_)
ServedUpTo(n) ==
  IF n = 0 THEN <<>>
  ELSE ServedUpTo(n - 1) \o served[n]

\* a worker is outside the loop of downloadHouseImages: the function has returned
LeftLoop(w) == wpc[w] \in {"returned", "done"}

\* C1: every record put on the channel is received by exactly one worker:
\* no position is received twice, no two workers hold the same record, what
\* a worker holds is the record that was sent, the only sent record not yet
\* received is the one the producer is parked with, and once the channel is
\* closed every sent record has been received.
C1_ReceivedExactlyOnce ==
  /\ \A i, j \in DOMAIN received : received[i] = received[j] => i = j
  /\ \A i \in DOMAIN received : received[i] \in Positions
  /\ \A w \in Workers : Holding(w) =>
       /\ wrec[w].pos \in Positions
       /\ wrec[w].house = sent[wrec[w].pos]
       /\ \A v \in Workers : (v # w /\ Holding(v)) => wrec[v].pos # wrec[w].pos
  /\ Len(received) = Len(sent) - (IF out = None THEN 0 ELSE 1)
  /\ closed => {received[i] : i \in DOMAIN received} = Positions

C1_Witness ==
  /\ closed
  /\ Len(sent) = MaxHouses
  /\ Len(received) = Len(sent)
  /\ \A w \in Workers : wpc[w] = "done"

\* C2: when the channel is closed, the sequence of records the producer sent
\* is the concatenation, in page order and within a page in listed order, of
\* the houses array of every page.
C2_SentIsConcatenation ==
  closed => /\ Len(served) = NumPages
            /\ sent = ServedUpTo(NumPages)

C2_Witness ==
  /\ closed
  /\ Len(served) = NumPages
  /\ \A p \in Pages : Len(served[p]) >= 1
  /\ \E p \in Pages : Len(served[p]) >= 2
  /\ Len(sent) = MaxHouses

\* every page has been served and every record of every page has been
\* received and processed
AllRecordsProcessed ==
  /\ Len(served) = NumPages
  /\ sent = ServedUpTo(NumPages)
  /\ finished = Positions

\* C3: whatever records fail to download, unless a fatal error ends the
\* process every record of every page is eventually received and processed.
C3_EveryRecordProcessed == <>(pstate = "fatal" \/ AllRecordsProcessed)

\* C4: a worker leaves its receive loop only at the receive step, on seeing
\* the channel closed and empty, never on a per-item error.
C4_LeavesOnlyOnClose ==
  [][\A w \in Workers :
       (~LeftLoop(w) /\ LeftLoop(w)') =>
         (wpc[w] = "recv" /\ closed /\ out = None)]_vars

\* C5: unless a fatal error ends the process, main eventually returns from
\* wg.Wait and every worker has signalled completion.
C5_MainReturns ==
  <>(pstate = "fatal" \/ (pstate = "exited" /\ \A w \in Workers : wpc[w] = "done"))

\* C6: main is past wg.Wait only when every worker has signalled completion,
\* a worker signals completion only with the channel closed and no record in
\* hand, so past wg.Wait the channel is closed and every record sent on it
\* has finished processing.
C6_WaitAfterAllDone ==
  /\ \A w \in Workers : wpc[w] = "done" => (closed /\ ~Holding(w))
  /\ mainpc = "done" =>
       /\ \A w \in Workers : wpc[w] = "done"
       /\ closed
       /\ out = None
       /\ finished = Positions

C6_Witness ==
  /\ mainpc = "done"
  /\ Len(sent) = MaxHouses

\* C7: after K < maxTries non-200 answers followed by 200 OK,
\* requestWithRetry returns that response with a nil error after exactly
\* K + 1 GETs, and the fatal path is not entered while fewer than maxTries
\* non-200 answers were given.
C7_SuccessAfterKFailures ==
  /\ (ppc = "returned" /\ resp = "200") =>
       /\ err = "nil"
       /\ nNon200 \in 0..(maxTries - 1)
       /\ ngets = nNon200 + 1
       /\ fatalCause # "retries"
  /\ (ppc = "request" /\ nNon200 < maxTries) => fatalCause # "retries"

C7_Witness ==
  /\ ppc = "returned"
  /\ resp = "200"
  /\ err = "nil"
  /\ nNon200 = maxTries - 1
  /\ ngets = maxTries

\* C8: against a server that answers non-200 every time, the fatal path is
\* taken after exactly maxTries GETs: never with fewer, and with maxTries
\* answers counted the only step left to requestWithRetry is the fatal one.
C8_FatalAtMaxTries ==
  /\ fatalCause = "retries" => (ngets = maxTries /\ nNon200 = maxTries)
  /\ (pstate = "running" /\ ppc = "request" /\ nNon200 < maxTries) =>
       (ENABLED RetryGet /\ ~ENABLED RetryFatal)
  /\ (pstate = "running" /\ ppc = "request" /\ nNon200 >= maxTries) =>
       (ENABLED RetryFatal /\ ~ENABLED RetryGet)

C8_Witness ==
  /\ pstate = "fatal"
  /\ fatalCause = "retries"
  /\ ngets = maxTries

\* C9: a transport error ends the call at once: requestWithRetry has
\* returned with that error and no response, and no further GET is issued.
C9_TransportErrorNotRetried ==
  [][/\ err' = "transport" => (ppc' = "returned" /\ resp' = "nil")
     /\ err = "transport" => (ngets' = ngets /\ tries' = tries)]_vars

C9_Witness ==
  /\ err = "transport"
  /\ ppc = "returned"
  /\ nNon200 = maxTries - 1
  /\ ngets = maxTries

\* the step is one of the three log.Fatalf calls of the producer path
ProducerFatalStep ==
  \/ ppc = "request" /\ tries >= maxTries /\ fatalCause' = "retries"
  \/ ppc = "returned" /\ err # "nil" /\ fatalCause' = "transport"
  \/ ppc = "returned" /\ err = "nil" /\ fatalCause' = "decode"

C11_ClosedOnceAfterLastPage ==
  [][/\ closed' =>
          /\ ppc' = "finished"
          /\ page' = NumPages + 1
          /\ Len(served') = NumPages
          /\ sent' = ServedUpTo(NumPages)'
          /\ out' = None
          /\ {received'[i] : i \in DOMAIN received'} = 1..Len(sent')
     /\ closed => (closed' /\ sent' = sent /\ out' = out /\ ppc' = ppc)
     /\ (~closed /\ closed') => (ppc = "close" /\ page = NumPages + 1)]_vars

C11_Witness ==
  /\ closed
  /\ ppc = "finished"
  /\ Len(sent) = MaxHouses
  /\ \A p \in Pages : Len(served[p]) >= 1
  /\ \E w \in Workers : wpc[w] = "copy"

\* records sent and not yet processed to the end
InFlight == Len(sent) - Cardinality(finished)

\* the in-flight records are the ones workers hold plus the one the producer
\* is parked with, at most one per worker and one for the producer
InFlightBounded ==
  /\ InFlight = Cardinality({w \in Workers : Holding(w)})
                  + (IF out = None THEN 0 ELSE 1)
  /\ InFlight <= maxGoroutines + 1

\* C12: the records in flight are at most N + 1, and the producer gets past
\* its send only in a step in which a worker at its receive takes the value.
C12_Backpressure ==
  [][/\ InFlightBounded'
     /\ (ppc = "blocked" /\ ppc' # "blocked") =>
          \E w \in Workers :
            /\ wpc[w] = "recv"
            /\ wpc'[w] = "get"
            /\ wrec'[w] = out]_vars

C12_Witness ==
  /\ InFlight = maxGoroutines + 1
  /\ ppc = "blocked"
  /\ \A w \in Workers : Holding(w)

\* every record sent has had its processing end, and the channel is closed
PipelineCompleted == closed /\ finished = Positions

\* the name section 6 gives the file of a house of the model: the id in
\* decimal, the address "a" that is left of "a" and of "a..", the
\* extension of "h.x/<k>.j" as filepath.Ext returns it, with its dot
ExpectedName(h) == <<"i", "d", "-">> \o Itoa(h.ID) \o <<"-", "a", ".", ".", "j">>

\* the received records whose file has the name of the file of record i
SameName(i) ==
  {received[j] : j \in {n \in DOMAIN received :
                          ExpectedName(sent[received[n]]) = ExpectedName(sent[i])}}

\* the blocks of the body the asset server sends for record i
AssetOf(i) == asset(sent[i].PhotoURL)

\* C13, as claimed: once the pipeline has completed, every record whose
\* download succeeded has its file, and the file holds exactly the bytes of
\* that record's asset.
C13_FileHoldsAsset ==
  PipelineCompleted =>
    \A i \in succeeded :
      /\ ExpectedName(sent[i]) \in DOMAIN files
      /\ files[ExpectedName(sent[i])] = AssetOf(i)

\* C13, amended: from the moment its download has succeeded, and so once
\* the pipeline has completed, a record has its file with exactly the bytes
\* of its asset, provided no other received record derives the same name.
C13_FileHoldsAssetUnlessCollision ==
  \A i \in succeeded :
    SameName(i) = {i} =>
      /\ ExpectedName(sent[i]) \in DOMAIN files
      /\ files[ExpectedName(sent[i])] = AssetOf(i)

\* the pipeline has completed, every download succeeded, one record has a
\* name of its own and two others share theirs
C13_Witness ==
  /\ PipelineCompleted
  /\ succeeded = 1..MaxHouses
  /\ \E i \in succeeded : SameName(i) = {i} /\ files[ExpectedName(sent[i])] = AssetOf(i)
  /\ \E i \in succeeded : SameName(i) # {i}

\* the records a worker has taken past the GET of line 105
PastGet ==
  finished \cup {wrec[w].pos : w \in {v \in Workers : Holding(v) /\ wpc[v] \in {"create", "copy"}}}

\* C14: the asset fetch is a single attempt: a record that a worker has
\* taken past its GET, with or without an error, has had exactly one GET of
\* its photo URL, no record ever has more than one, and a record no worker
\* has received has none.
C14_SingleAssetGet ==
  \A i \in 1..MaxHouses :
    /\ assetGets[i] <= 1
    /\ i \in PastGet => assetGets[i] = 1
    /\ i \notin {received[j] : j \in DOMAIN received} => assetGets[i] = 0

\* a record's download failed and a later record was downloaded all the same
C14_Witness ==
  \E i \in finished \ succeeded :
    /\ assetGets[i] = 1
    /\ \E j \in succeeded : j > i /\ assetGets[j] = 1

\* C15: in one requestWithRetry call at most maxTries GETs are issued and
\* the counter tries stays within 0..maxTries.
C15_AtMostMaxTriesGets ==
  /\ tries \in 0..maxTries
  /\ ngets \in 0..maxTries
  /\ tries <= ngets

C15_Witness ==
  /\ pstate = "running"
  /\ ppc = "request"
  /\ tries = maxTries
  /\ ngets = maxTries

\* records i and j are the two received records of their name, and both
\* downloads succeeded
CollidingPair(i, j) ==
  /\ i # j
  /\ SameName(i) = {i, j}
  /\ {i, j} \subseteq succeeded

C17_PagesInSequence ==
  [][/\ page' \in {page, page + 1}
     /\ ngets' = ngets + 1 =>
          /\ ppc = "request"
          /\ page \in Pages
          /\ Len(served) = page - 1
          /\ sent = ServedUpTo(page - 1)
          /\ out = None
          /\ Len(received) = Len(sent)
     /\ served' # served =>
          /\ Len(served) = page - 1
          /\ Len(served') = page
          /\ page' = page]_vars

C17_Witness ==
  /\ page = NumPages
  /\ ppc = "request"
  /\ ngets >= 1
  /\ Len(sent) >= 2
  /\ Len(received) = Len(sent)

\* handles open in the whole pool
RECURSIVE PoolHandles(_)
PoolHandles(n) == IF n = 0 THEN 0 ELSE handles[n] + PoolHandles(n - 1)

\* C18: a worker holds at most one open response body and one open file,
\* and none when it is about to receive its next record; the pool holds at
\* most 2*N handles; the producer holds at most one open page body.
C18_HandlesClosedPerRecord ==
  /\ \A w \in Workers :
       /\ handles[w] <= 2
       /\ wpc[w] = "recv" => handles[w] = 0
  /\ PoolHandles(maxGoroutines) <= 2 * maxGoroutines
  /\ bodies <= 1

\* C19: in main.go the counter of the wait group never goes below zero.
C19_CounterNeverNegative == wg >= 0
====
